---- MODULE Spec2Model ----
(***************************************************************************)
(* Model of mission-control-server.js: the POST /telemetry ingest handler, *)
(* the WebSocket connection handler and broadcast().                       *)
(*                                                                         *)
(* Node runs every callback to completion, so each handler is one atomic   *)
(* action.  The ws library owns wss.clients and each socket's readyState;  *)
(* its part (adding a socket on connection, deleting it on 'close',        *)
(* moving readyState) is modelled together with the handler it calls.      *)
(*                                                                         *)
(* What a handler hands to the transports is kept in sent, the output of   *)
(* the latest step; greetings and early summarise each observer's stream.  *)
(***************************************************************************)
EXTENDS Integers, Sequences, FiniteSets, TLC

(* ---------------- bounds ---------------- *)
MaxObservers == 2
MaxRequests == 2
MaxClock == 1

Observers == 1..MaxObservers
Requests == 1..MaxRequests

(* ---------------- program constants ---------------- *)
\* ws readyState values (WebSocket.CONNECTING .. WebSocket.CLOSED)
CONNECTING == "CONNECTING"
OPEN == "OPEN"
CLOSING == "CLOSING"
CLOSED == "CLOSED"

InvalidJSON == "Invalid JSON"
InvalidSchema == "Invalid schema: agentId and status are required."
Greeting == "Connected to Mission Control Backend"

(* ---------------- JSON values ---------------- *)
\* A property value is kept as its JSON literal text; Undefined is what a
\* property read gives when the property is absent.
Undefined == "undefined"

\* JavaScript truthiness of a property value: undefined, null, false, 0 and
\* the empty string are falsy, everything else is truthy.
Falsy == {Undefined, "null", "false", "0", "\"\""}
Truthy(v) == v \notin Falsy

\* new Date().toISOString() at clock value n
ToISOString(n) == "\"T" \o ToString(n) \o "\""

\* The request bodies submitted by agents.  syntax "empty" is the empty
\* text, "invalid" any text JSON.parse rejects; the others parse.
EmptyBody == [syntax |-> "empty"]
ObjectBody(m) == [syntax |-> "object", members |-> m]
Bodies ==
  { [syntax |-> "invalid"],
    [syntax |-> "null"],
    ObjectBody([status |-> "\"working\""]),
    ObjectBody([agentId |-> "\"A1\"", status |-> "\"\""]),
    ObjectBody([agentId |-> "\"A3\"", status |-> "\"online\"", timestamp |-> "0"]),
    ObjectBody([agentId |-> "7", status |-> "\"idle\"", timestamp |-> "\"\""]),
    ObjectBody([agentId |-> "\"A2\"", status |-> "\"error\"",
                timestamp |-> "\"not-a-date\""]),
    ObjectBody([agentId |-> "\"A1\"", status |-> "\"working\"",
                metrics |-> "{\"cpu\":50}", logs |-> "[\"start\"]"]) }

\* JSON.parse(body): throws a SyntaxError on text that is not JSON.
JSONParse(body) ==
  IF body.syntax \in {"empty", "invalid"}
    THEN [threw |-> TRUE]
    ELSE IF body.syntax = "object"
      THEN [threw |-> FALSE, value |-> [t |-> "object", props |-> body.members]]
      ELSE [threw |-> FALSE, value |-> [t |-> body.syntax]]

\* value.name: a property read throws a TypeError on null, gives undefined
\* on a number or an array, and the member (or undefined) on an object.
ReadThrows(value) == value.t = "null"
Get(value, name) ==
  IF value.t = "object" /\ name \in DOMAIN value.props
    THEN value.props[name]
    ELSE Undefined

\* value.name = v on an object
Put(value, name, v) ==
  [t |-> "object", props |-> (name :> v) @@ value.props]

(* ---------------- state ---------------- *)
VARIABLES
  clients,     \* wss.clients, in insertion order (a JavaScript Set)
  readyState,  \* readyState of each connection handle
  broken,      \* the handle's send raises (write side of the socket failed)
  reqState,    \* per request: "idle", "reading" (body being read), "ended"
  body,        \* per request: the body accumulated by the 'data' handler,
               \* released with the request's closure after 'end'
  responses,   \* per request: the responses written to res, in order
  now,         \* server clock, read by new Date()
  alive,       \* the process runs: no exception has left a handler uncaught
  sent,        \* per observer: the messages the latest step handed to it
  last,        \* the handler that ran in the latest step and its outcome
  greetings,   \* per observer: number of SYSTEM messages handed to it so far
  early        \* per observer: a TELEMETRY message was handed to it before
               \* any SYSTEM message

vars == <<clients, readyState, broken, reqState, body, responses, now, alive,
          sent, last, greetings, early>>

Range(s) == {s[i] : i \in 1..Len(s)}

(* ---------------- registry (wss.clients) ---------------- *)
\* Set.prototype.add / delete on the insertion-ordered client set
\* Variant of Register for a registry kept as a list: always appends.
RegisterAppend(cs, o) == Append(cs, o)

Register(cs, o) == IF o \in Range(cs) THEN cs ELSE Append(cs, o)
Unregister(cs, o) == SelectSeq(cs, LAMBDA c : c # o)

(* ---------------- messages ---------------- *)
SystemMessage(t) ==
  [type |-> "SYSTEM", message |-> Greeting, timestamp |-> ToISOString(t)]
\* Variant of TelemetryMessage whose payload defaults metrics and logs to
\* empty containers.
TelemetryMessageDefaults(data) ==
  [type |-> "TELEMETRY",
   payload |-> data.props @@ [metrics |-> "{}", logs |-> "[]"]]

\* JSON.stringify({ type: 'TELEMETRY', payload: data })
TelemetryMessage(data) == [type |-> "TELEMETRY", payload |-> data.props]

Response(code, content) == [code |-> code, body |-> content]
OkResponse(n) == Response(200, [status |-> "ok", broadcast_count |-> n])
ErrorResponse(msg) == Response(400, [error |-> msg])

\* nothing handed to any observer
Nothing == [o \in Observers |-> <<>>]

\* the latest step ran no handler that sends
Quiet == [kind |-> "none"]
Connected(o) == [kind |-> "connection", observer |-> o]
EndOf(r, b, broadcast, raised) ==
  [kind |-> "end", request |-> r, body |-> b, broadcast |-> broadcast,
   raised |-> raised]

\* ws.send / client.send: out[o] is handed to observer o's transport
Hand(out) ==
  /\ sent' = out
  /\ greetings' =
       [o \in Observers |->
          greetings[o] + Cardinality({i \in 1..Len(out[o]) : out[o][i].type = "SYSTEM"})]
  /\ early' =
       [o \in Observers |->
          \/ early[o]
          \/ greetings[o] = 0 /\ out[o] # <<>> /\ out[o][1].type = "TELEMETRY"]

(* ---------------- broadcast ---------------- *)
\* client.send(message) raises when the socket's write side has failed.
SendRaises(c) == broken[c]

\* Variant of ForEachClient without the readyState test: sends to every
\* registered client.
RECURSIVE ForEachClientAll(_, _, _, _)
ForEachClientAll(cs, i, message, out) ==
  IF i > Len(cs)
    THEN [sent |-> out, raised |-> FALSE]
    ELSE ForEachClientAll(cs, i + 1, message,
                          [out EXCEPT ![cs[i]] = Append(@, message)])

\* wss.clients.forEach in broadcast(): visits the clients in insertion
\* order from position i on, sends to those whose readyState is OPEN, and
\* stops at the first send that raises (nothing in broadcast catches it).
\* out is what has been handed to each observer so far.
RECURSIVE ForEachClient(_, _, _, _)
ForEachClient(cs, i, message, out) ==
  IF i > Len(cs)
    THEN [sent |-> out, raised |-> FALSE]
    ELSE IF readyState[cs[i]] = OPEN
      THEN IF SendRaises(cs[i])
        THEN [sent |-> out, raised |-> TRUE]
        ELSE ForEachClient(cs, i + 1, message,
                           [out EXCEPT ![cs[i]] = Append(@, message)])
      ELSE ForEachClient(cs, i + 1, message, out)

\* broadcast(data): serialises the TELEMETRY message once and fans it out
Broadcast(data) == ForEachClient(clients, 1, TelemetryMessage(data), Nothing)

(* ---------------- ingest: req.on('end') ---------------- *)
\* Variant of SchemaInvalid that also requires a timestamp.
SchemaInvalidStrict(telemetryData) ==
  \/ ~Truthy(Get(telemetryData, "agentId"))
  \/ ~Truthy(Get(telemetryData, "status"))
  \/ ~Truthy(Get(telemetryData, "timestamp"))

\* !telemetryData.agentId || !telemetryData.status
SchemaInvalid(telemetryData) ==
  ~Truthy(Get(telemetryData, "agentId")) \/ ~Truthy(Get(telemetryData, "status"))

\* Variant of WithTimestamp that fills the timestamp only when it is absent.
WithTimestampIfAbsent(telemetryData, t) ==
  IF Get(telemetryData, "timestamp") = Undefined
    THEN Put(telemetryData, "timestamp", ToISOString(t))
    ELSE telemetryData

\* if (!telemetryData.timestamp) telemetryData.timestamp = new Date().toISOString()
\* where new Date() is t
WithTimestamp(telemetryData, t) ==
  IF ~Truthy(Get(telemetryData, "timestamp"))
    THEN Put(telemetryData, "timestamp", ToISOString(t))
    ELSE telemetryData

\* the catch block: every exception of the try block ends here
Caught(out, broadcast) ==
  [response |-> ErrorResponse(InvalidJSON), sent |-> out,
   broadcast |-> broadcast, raised |-> broadcast]

\* The body of the 'end' handler on request body b at time t: the response
\* it writes, what it hands to the observers, whether it reached
\* broadcast() and whether a send raised there.
HandleEnd(b, t) ==
  LET parsed == JSONParse(b) IN
  IF parsed.threw THEN Caught(Nothing, FALSE)
  ELSE IF ReadThrows(parsed.value) THEN Caught(Nothing, FALSE)
  ELSE IF SchemaInvalid(parsed.value)
    THEN [response |-> ErrorResponse(InvalidSchema), sent |-> Nothing,
          broadcast |-> FALSE, raised |-> FALSE]
  ELSE LET bc == Broadcast(WithTimestamp(parsed.value, t))
       IN IF bc.raised
            THEN Caught(bc.sent, TRUE)
            ELSE [response |-> OkResponse(Len(clients)), sent |-> bc.sent,
                  broadcast |-> TRUE, raised |-> FALSE]

(* ---------------- actions ---------------- *)
Init ==
  /\ clients = <<>>
  /\ readyState = [o \in Observers |-> CONNECTING]
  /\ broken = [o \in Observers |-> FALSE]
  /\ reqState = [r \in Requests |-> "idle"]
  /\ body = [r \in Requests |-> EmptyBody]
  /\ responses = [r \in Requests |-> <<>>]
  /\ now = 0
  /\ alive = TRUE
  /\ sent = Nothing
  /\ last = Quiet
  /\ greetings = [o \in Observers |-> 0]
  /\ early = [o \in Observers |-> FALSE]

\* new Date(): the clock never runs backwards
Later == now..MaxClock

\* A connection handle is a fresh identity: handles are numbered in the
\* order the connections are accepted.
Accepted == {o \in Observers : readyState[o] # CONNECTING}

\* Variant of Connect that sends no greeting.
ConnectSilent(o) ==
  /\ alive
  /\ o = Cardinality(Accepted) + 1
  /\ readyState' = [readyState EXCEPT ![o] = OPEN]
  /\ clients' = Register(clients, o)
  /\ Hand(Nothing)
  /\ last' = Connected(o)
  /\ \E t \in Later : now' = t
  /\ UNCHANGED <<alive, broken, reqState, body, responses>>

\* Variant of Connect that replays the event just broadcast after the
\* greeting.
ConnectReplay(o) ==
  /\ alive
  /\ o = Cardinality(Accepted) + 1
  /\ readyState' = [readyState EXCEPT ![o] = OPEN]
  /\ clients' = Register(clients, o)
  /\ LET replay ==
           IF last.kind = "end" /\ last.broadcast
             THEN <<TelemetryMessage(WithTimestamp(JSONParse(last.body).value, now))>>
             ELSE <<>>
     IN \E t \in Later :
          /\ now' = t
          /\ Hand([Nothing EXCEPT ![o] = <<SystemMessage(t)>> \o replay])
  /\ last' = Connected(o)
  /\ UNCHANGED <<alive, broken, reqState, body, responses>>

\* Variant of Connect for a registry kept as a list, to which the handler
\* adds the socket once more.
ConnectTwice(o) ==
  /\ alive
  /\ o = Cardinality(Accepted) + 1
  /\ readyState' = [readyState EXCEPT ![o] = OPEN]
  /\ clients' = Append(Register(clients, o), o)
  /\ \E t \in Later :
       /\ now' = t
       /\ Hand([Nothing EXCEPT ![o] = <<SystemMessage(t)>>])
  /\ last' = Connected(o)
  /\ UNCHANGED <<alive, broken, reqState, body, responses>>

\* Variant of Connect in which a reconnecting observer gets its closed
\* handle back.
ConnectReuse(o) ==
  /\ alive
  /\ o = Cardinality(Accepted) + 1 \/ readyState[o] = CLOSED
  /\ readyState' = [readyState EXCEPT ![o] = OPEN]
  /\ clients' = Register(clients, o)
  /\ \E t \in Later :
       /\ now' = t
       /\ Hand([Nothing EXCEPT ![o] = <<SystemMessage(t)>>])
  /\ last' = Connected(o)
  /\ UNCHANGED <<alive, broken, reqState, body, responses>>

\* The upgrade completes: ws opens the socket and adds it to wss.clients,
\* then emits 'connection', whose handler sends the SYSTEM greeting with
\* the time t of its new Date().
Connect(o) ==
  /\ alive
  /\ o = Cardinality(Accepted) + 1
  /\ readyState' = [readyState EXCEPT ![o] = OPEN]
  /\ clients' = Register(clients, o)
  /\ \E t \in Later :
       /\ now' = t
       /\ Hand([Nothing EXCEPT ![o] = <<SystemMessage(t)>>])
  /\ last' = Connected(o)
  /\ UNCHANGED <<alive, broken, reqState, body, responses>>

\* Variant of OnError for a socket without an 'error' listener: the emitter
\* throws the error and the process exits.
OnErrorUnhandled(o) ==
  /\ alive
  /\ readyState[o] = OPEN
  /\ readyState' = [readyState EXCEPT ![o] = CLOSING]
  /\ alive' = FALSE
  /\ Hand(Nothing)
  /\ last' = Quiet
  /\ UNCHANGED <<clients, broken, reqState, body, responses, now>>

\* 'error' on an open socket: the handler only logs; ws leaves the socket
\* CLOSING, still a member of wss.clients until its 'close'.
OnError(o) ==
  /\ alive
  /\ readyState[o] = OPEN
  /\ readyState' = [readyState EXCEPT ![o] = CLOSING]
  /\ Hand(Nothing)
  /\ last' = Quiet
  /\ UNCHANGED <<alive, clients, broken, reqState, body, responses, now>>

\* Variant of OnClose in which nothing deletes the socket from the registry.
OnCloseKeep(o) ==
  /\ alive
  /\ readyState[o] \in {OPEN, CLOSING}
  /\ readyState' = [readyState EXCEPT ![o] = CLOSED]
  /\ Hand(Nothing)
  /\ last' = Quiet
  /\ UNCHANGED <<alive, clients, broken, reqState, body, responses, now>>

\* 'close': the handler only logs; ws has set readyState CLOSED and its own
\* listener deletes the socket from wss.clients.
OnClose(o) ==
  /\ alive
  /\ readyState[o] \in {OPEN, CLOSING}
  /\ readyState' = [readyState EXCEPT ![o] = CLOSED]
  /\ clients' = Unregister(clients, o)
  /\ Hand(Nothing)
  /\ last' = Quiet
  /\ UNCHANGED <<alive, broken, reqState, body, responses, now>>

\* POST /telemetry arrives: let body = ''
RequestStart(r) ==
  /\ alive
  /\ reqState[r] = "idle"
  /\ r = Cardinality({q \in Requests : reqState[q] # "idle"}) + 1
  /\ reqState' = [reqState EXCEPT ![r] = "reading"]
  /\ body' = [body EXCEPT ![r] = EmptyBody]
  /\ Hand(Nothing)
  /\ last' = Quiet
  /\ UNCHANGED <<alive, clients, readyState, broken, responses, now>>

\* req.on('data'): body += chunk (the body arrives in one piece)
RequestData(r, chunk) ==
  /\ alive
  /\ reqState[r] = "reading"
  /\ body[r] = EmptyBody
  /\ body' = [body EXCEPT ![r] = chunk]
  /\ Hand(Nothing)
  /\ last' = Quiet
  /\ UNCHANGED <<alive, clients, readyState, broken, reqState, responses, now>>

\* Variant of RequestEnd whose broadcast drops the clients that are not
\* OPEN from the registry.
RequestEndPrune(r) ==
  /\ alive
  /\ reqState[r] = "reading"
  /\ \E t \in Later : \E h \in {HandleEnd(body[r], t)} :
         /\ h.broadcast \/ t = now
         /\ now' = t
         /\ responses' = [responses EXCEPT ![r] = Append(@, h.response)]
         /\ Hand(h.sent)
         /\ last' = EndOf(r, body[r], h.broadcast, h.raised)
         /\ clients' = IF h.broadcast
                         THEN SelectSeq(clients, LAMBDA c : readyState[c] = OPEN)
                         ELSE clients
  /\ reqState' = [reqState EXCEPT ![r] = "ended"]
  /\ body' = [body EXCEPT ![r] = EmptyBody]
  /\ UNCHANGED <<alive, readyState, broken>>

\* Variant of RequestEnd whose broadcast hands each observer, after the new
\* event, the event broadcast just before once more.
RequestEndRequeue(r) ==
  /\ alive
  /\ reqState[r] = "reading"
  /\ \E t \in Later : \E h \in {HandleEnd(body[r], t)} :
       LET stale ==
             IF last.kind = "end" /\ last.broadcast
               THEN <<TelemetryMessage(WithTimestamp(JSONParse(last.body).value, now))>>
               ELSE <<>>
       IN
         /\ h.broadcast \/ t = now
         /\ now' = t
         /\ responses' = [responses EXCEPT ![r] = Append(@, h.response)]
         /\ Hand([o \in Observers |->
                    IF h.sent[o] = <<>> THEN <<>> ELSE h.sent[o] \o stale])
         /\ last' = EndOf(r, body[r], h.broadcast, h.raised)
  /\ reqState' = [reqState EXCEPT ![r] = "ended"]
  /\ body' = [body EXCEPT ![r] = EmptyBody]
  /\ UNCHANGED <<alive, clients, readyState, broken>>

\* Variant of RequestEnd that answers first and leaves the fan-out to a
\* later turn of the event loop.
RequestEndAckFirst(r) ==
  /\ alive
  /\ reqState[r] = "reading"
  /\ \E t \in Later : \E h \in {HandleEnd(body[r], t)} :
         /\ h.broadcast \/ t = now
         /\ now' = t
         /\ responses' = [responses EXCEPT ![r] = Append(@, h.response)]
         /\ Hand(Nothing)
         /\ last' = EndOf(r, body[r], h.broadcast, h.raised)
  /\ reqState' = [reqState EXCEPT ![r] = "ended"]
  /\ body' = [body EXCEPT ![r] = EmptyBody]
  /\ UNCHANGED <<alive, clients, readyState, broken>>

\* Variant of RequestEnd whose schema branch lacks the return: the handler
\* goes on and answers a second time.
RequestEndNoReturn(r) ==
  /\ alive
  /\ reqState[r] = "reading"
  /\ \E t \in Later : \E h \in {HandleEnd(body[r], t)} :
         /\ h.broadcast \/ t = now
         /\ now' = t
         /\ responses' =
              [responses EXCEPT ![r] =
                 IF h.response = ErrorResponse(InvalidSchema)
                   THEN Append(Append(@, h.response), OkResponse(Len(clients)))
                   ELSE Append(@, h.response)]
         /\ Hand(h.sent)
         /\ last' = EndOf(r, body[r], h.broadcast, h.raised)
  /\ reqState' = [reqState EXCEPT ![r] = "ended"]
  /\ body' = [body EXCEPT ![r] = EmptyBody]
  /\ UNCHANGED <<alive, clients, readyState, broken>>

\* req.on('end'); t is the time its new Date() calls give (the paths that
\* answer before the validation has passed read no clock)
RequestEnd(r) ==
  /\ alive
  /\ reqState[r] = "reading"
  /\ \E t \in Later : \E h \in {HandleEnd(body[r], t)} :
         /\ h.broadcast \/ t = now
         /\ now' = t
         /\ responses' = [responses EXCEPT ![r] = Append(@, h.response)]
         /\ Hand(h.sent)
         /\ last' = EndOf(r, body[r], h.broadcast, h.raised)
  /\ reqState' = [reqState EXCEPT ![r] = "ended"]
  /\ body' = [body EXCEPT ![r] = EmptyBody]
  /\ UNCHANGED <<alive, clients, readyState, broken>>

\* The write side of an open socket fails before ws has noticed
\* (readyState is still OPEN): the next send on it raises.
SocketFail(o) ==
  /\ alive
  /\ readyState[o] = OPEN
  /\ ~broken[o]
  /\ broken' = [broken EXCEPT ![o] = TRUE]
  /\ Hand(Nothing)
  /\ last' = Quiet
  /\ UNCHANGED <<alive, clients, readyState, reqState, body, responses, now>>

Next ==
  \/ \E o \in Observers : Connect(o)
  \/ \E o \in Observers : OnError(o)
  \/ \E o \in Observers : OnClose(o)
  \/ \E r \in Requests : RequestStart(r)
  \/ \E r \in Requests, chunk \in Bodies : RequestData(r, chunk)
  \/ \E r \in Requests : RequestEnd(r)

\* The server with a transport whose send never raises on an OPEN socket
Spec == Init /\ [][Next]_vars

NextRaise ==
  \/ Next
  \/ \E o \in Observers : SocketFail(o)

\* The server with a transport whose send may raise on an OPEN socket
SpecRaise == Init /\ [][NextRaise]_vars

(* ---------------- the registry on its own ---------------- *)
\* The values wss.clients can hold: the duplicate-free sequences of handles.
Registries ==
  {cs \in UNION {[1..n -> Observers] : n \in 0..MaxObservers} :
     \A i, j \in 1..Len(cs) : cs[i] = cs[j] => i = j}

\* the latest step applied add / delete for observer o to the registry cs
Applied(op, o, cs) == [kind |-> op, observer |-> o, before |-> cs]

\* any registry, its members OPEN or CLOSING, the other handles not yet
\* accepted or CLOSED, at any time
InitRegistry ==
  /\ clients \in Registries
  /\ readyState \in [Observers -> {CONNECTING, OPEN, CLOSING, CLOSED}]
  /\ \A o \in Observers : o \in Range(clients) <=> readyState[o] \in {OPEN, CLOSING}
  /\ broken = [o \in Observers |-> FALSE]
  /\ reqState = [r \in Requests |-> "idle"]
  /\ body = [r \in Requests |-> EmptyBody]
  /\ responses = [r \in Requests |-> <<>>]
  /\ now \in 0..MaxClock
  /\ alive = TRUE
  /\ sent = Nothing
  /\ last = Quiet
  /\ greetings = [o \in Observers |-> 0]
  /\ early = [o \in Observers |-> FALSE]

\* wss.clients.add(o), for any handle
RegistryAdd(o) ==
  /\ clients' = Register(clients, o)
  /\ last' = Applied("add", o, clients)
  /\ UNCHANGED <<readyState, broken, reqState, body, responses, now, alive,
                 sent, greetings, early>>

\* wss.clients.delete(o), for any handle
RegistryDelete(o) ==
  /\ clients' = Unregister(clients, o)
  /\ last' = Applied("delete", o, clients)
  /\ UNCHANGED <<readyState, broken, reqState, body, responses, now, alive,
                 sent, greetings, early>>

NextRegistry ==
  \/ \E o \in Observers : RegistryAdd(o)
  \/ \E o \in Observers : RegistryDelete(o)

\* The registry operations applied to every registry and handle
SpecRegistry == InitRegistry /\ [][NextRegistry]_vars

TypeOK ==
  /\ Range(clients) \subseteq Observers
  /\ readyState \in [Observers -> {CONNECTING, OPEN, CLOSING, CLOSED}]
  /\ \A r \in Requests : Len(responses[r]) <= 1

(* ---------------- vocabulary of the properties ---------------- *)
\* a required field is missing or empty / present and non-empty
MissingOrEmpty(v) == v \in {Undefined, "null", "\"\""}
NonEmptyValue(v) == ~MissingOrEmpty(v)

Parses(b) == ~JSONParse(b).threw
Field(b, name) == Get(JSONParse(b).value, name)
LacksRequired(b) ==
  Parses(b) /\ (MissingOrEmpty(Field(b, "agentId")) \/ MissingOrEmpty(Field(b, "status")))
ValidSubmission(b) ==
  Parses(b) /\ NonEmptyValue(Field(b, "agentId")) /\ NonEmptyValue(Field(b, "status"))

Answered(r, resp) == responses[r] = <<resp>>
Succeeded(r) == Len(responses[r]) = 1 /\ responses[r][1].code = 200
\* the 'end' handler of request r ran in the latest step
JustEnded(r) == last.kind = "end" /\ last.request = r
\* the step in which request r's 'end' handler runs
EndStep(r) == reqState[r] = "reading" /\ reqState'[r] = "ended"
\* registered observers that are (not) OPEN
OpenMembers == {c \in Range(clients) : readyState[c] = OPEN}
NonOpenMembers == Range(clients) \ OpenMembers
\* m is the TELEMETRY message of the event submitted as body b: its payload
\* has every submitted member but the timestamp as submitted
IsEventOf(m, b) ==
  /\ m.type = "TELEMETRY"
  /\ b.syntax = "object"
  /\ \A name \in DOMAIN b.members \ {"timestamp"} :
       name \in DOMAIN m.payload /\ m.payload[name] = b.members[name]
SentTo == {o \in Observers : sent[o] # <<>>}

(* ---------------- C1 ---------------- *)
\* C1: a request whose body parses as JSON (null included) and lacks a
\* non-empty agentId or status is answered 400 with the Invalid schema
\* error, and its handler hands no message to any observer.
C1_SchemaViolation ==
  \A r \in Requests :
    (JustEnded(r) /\ LacksRequired(last.body))
      => /\ Answered(r, ErrorResponse(InvalidSchema))
         /\ sent = Nothing

(* ---------------- C2 ---------------- *)
\* C2: a request whose body does not parse is answered 400 Invalid JSON and
\* its handler hands no message to any observer; only such requests get the
\* Invalid JSON answer.
C2_InvalidJSONIffUnparseable ==
  \A r \in Requests :
    JustEnded(r) =>
      /\ ~Parses(last.body)
           => (Answered(r, ErrorResponse(InvalidJSON)) /\ sent = Nothing)
      /\ Answered(r, ErrorResponse(InvalidJSON)) => ~Parses(last.body)

C4_OpenObserversSentOnce ==
  [][\A r \in Requests :
       (EndStep(r) /\ responses'[r][1].code = 200)
         => \A o \in Observers :
              IF o \in OpenMembers
                THEN Len(sent'[o]) = 1 /\ IsEventOf(sent'[o][1], body[r])
                ELSE sent'[o] = <<>>]_vars

\* a successful ingest has just reached an OPEN observer and skipped a
\* registered one that is not OPEN
C4_Witness ==
  \E r \in Requests :
    /\ JustEnded(r) /\ Succeeded(r)
    /\ SentTo # {} /\ SentTo = OpenMembers
    /\ NonOpenMembers # {}

(* ---------------- C5 ---------------- *)
\* C5: broadcast_count in a success response is the number of observers the
\* event's message was handed to in that ingest's broadcast.
C5_CountIsHanded ==
  \A r \in Requests :
    (JustEnded(r) /\ Succeeded(r))
      => responses[r][1].body.broadcast_count = Cardinality(SentTo)

(* ---------------- C6 ---------------- *)
\* C6 as stated: with exactly one registered observer not OPEN, a broadcast
\* reaches each of the other registered observers and leaves the broken one
\* out of the registry.
C6_BrokenRemoved ==
  [][\A r \in Requests :
       (EndStep(r) /\ last'.broadcast /\ Cardinality(NonOpenMembers) = 1)
         => /\ \A o \in OpenMembers :
                 Len(sent'[o]) = 1 /\ IsEventOf(sent'[o][1], body[r])
            /\ NonOpenMembers \cap Range(clients') = {}]_vars

\* C6 amended: with exactly one registered observer not OPEN, a broadcast
\* reaches each of the other registered observers, sends nothing to the
\* broken one and leaves the registry as it was; an observer leaves the
\* registry only in the step of its 'close' event.
C6_BrokenSkipped ==
  [][/\ \A r \in Requests :
          (EndStep(r) /\ last'.broadcast /\ Cardinality(NonOpenMembers) = 1)
            => /\ \A o \in OpenMembers :
                    Len(sent'[o]) = 1 /\ IsEventOf(sent'[o][1], body[r])
               /\ \A c \in NonOpenMembers : sent'[c] = <<>>
               /\ clients' = clients
     /\ \A o \in Range(clients) \ Range(clients') :
          readyState[o] # CLOSED /\ readyState'[o] = CLOSED /\ reqState' = reqState]_vars

\* a broadcast has just run over two or more registered observers, exactly
\* one of them broken
C6_Witness ==
  /\ last.kind = "end" /\ last.broadcast
  /\ Len(clients) >= 2
  /\ Cardinality(NonOpenMembers) = 1
  /\ Cardinality(SentTo) = Len(clients) - 1

(* ---------------- C7 ---------------- *)
\* C7: when a send raises during a broadcast, every other OPEN registered
\* observer still gets the message, the failing observer is CLOSED and out
\* of the registry after the handler, and the request is answered 200.
C7_SendFailureContained ==
  [][\A r \in Requests :
       (EndStep(r) /\ last'.broadcast /\ last'.raised)
         => /\ \A o \in OpenMembers :
                 \/ Len(sent'[o]) = 1 /\ IsEventOf(sent'[o][1], body[r])
                 \/ broken[o] /\ readyState'[o] = CLOSED /\ o \notin Range(clients')
            /\ responses'[r][1].code = 200]_vars

(* ---------------- C8 ---------------- *)
\* C8: every accepted observer has been handed exactly one SYSTEM greeting,
\* in the step that accepted it, and no TELEMETRY message before it; an
\* observer not yet accepted has been handed nothing.
C8_GreetingFirst ==
  \A o \in Observers :
    /\ ~early[o]
    /\ IF readyState[o] = CONNECTING
         THEN greetings[o] = 0 /\ sent[o] = <<>>
         ELSE /\ greetings[o] = 1
              /\ \A i \in 1..Len(sent[o]) :
                   sent[o][i].type = "SYSTEM" <=> (last = Connected(o) /\ i = 1)

\* an observer accepted earlier, and greeted then, is now handed the
\* TELEMETRY message of a request that has just ended
C8_Witness ==
  \E o \in Observers, r \in Requests :
    /\ JustEnded(r)
    /\ greetings[o] = 1
    /\ Len(sent[o]) = 1 /\ IsEventOf(sent[o][1], last.body)

(* ---------------- C9 ---------------- *)
\* C9: a TELEMETRY message is handed to an observer only in the step of an
\* ingest handler, for that ingest's event, and only if the observer is
\* registered and OPEN in that step; the step that accepts an observer hands
\* it the greeting alone, whatever was broadcast before.
C9_NoReplay ==
  /\ \A o \in Observers : \A i \in 1..Len(sent[o]) :
       sent[o][i].type = "TELEMETRY"
         => /\ last.kind = "end"
            /\ o \in OpenMembers
            /\ Len(sent[o]) = 1
            /\ IsEventOf(sent[o][i], last.body)
  /\ last.kind = "connection"
       => sent = [Nothing EXCEPT ![last.observer] = <<SystemMessage(now)>>]

\* an observer has just been accepted after an event was broadcast to
\* another observer, and is handed its greeting alone
C9_Witness ==
  \E r \in Requests :
    /\ Succeeded(r) /\ responses[r][1].body.broadcast_count >= 1
    /\ last.kind = "connection"
    /\ Len(sent[last.observer]) = 1
    /\ sent[last.observer][1].type = "SYSTEM"

(* ---------------- C10 ---------------- *)
\* C10: every TELEMETRY message handed to any observer has a payload with
\* non-empty agentId, non-empty status and a populated timestamp.
Populated(payload, name) ==
  name \in DOMAIN payload /\ NonEmptyValue(payload[name])
C10_EnvelopeComplete ==
  \A o \in Observers : \A i \in 1..Len(sent[o]) :
    sent[o][i].type = "TELEMETRY"
      => /\ Populated(sent[o][i].payload, "agentId")
         /\ Populated(sent[o][i].payload, "status")
         /\ Populated(sent[o][i].payload, "timestamp")

\* an observer is handed an envelope whose empty timestamp the server
\* replaced by its own time
C10_Witness ==
  \E o \in Observers, r \in Requests :
    /\ JustEnded(r) /\ ValidSubmission(last.body)
    /\ Field(last.body, "timestamp") = "\"\""
    /\ Len(sent[o]) = 1
    /\ sent[o][1].payload.timestamp = ToISOString(now)

(* ---------------- C11 ---------------- *)
\* C11: the payload handed out for an accepted submission carries the
\* server's current time when the submitted timestamp is absent or empty,
\* and the submitted timestamp itself otherwise.
C11_TimestampPassThrough ==
  \A r \in Requests :
    (JustEnded(r) /\ Succeeded(r))
      => \A o \in Observers : \A i \in 1..Len(sent[o]) :
           sent[o][i].payload.timestamp =
             IF MissingOrEmpty(Field(last.body, "timestamp"))
               THEN ToISOString(now)
               ELSE Field(last.body, "timestamp")

(* ---------------- C12 ---------------- *)
\* C12: the payload handed out for an accepted submission has metrics and
\* logs exactly as submitted when the submission has them, and no metrics
\* or logs member at all when it has not.
C12_MetricsLogsAsSubmitted ==
  \A r \in Requests :
    (JustEnded(r) /\ Succeeded(r))
      => \A o \in Observers : \A i \in 1..Len(sent[o]) :
           \A name \in {"metrics", "logs"} :
             IF name \in DOMAIN last.body.members
               THEN /\ name \in DOMAIN sent[o][i].payload
                    /\ sent[o][i].payload[name] = last.body.members[name]
               ELSE name \notin DOMAIN sent[o][i].payload

\* an observer has just been handed an event submitted with metrics and logs
C12_Witness ==
  \E o \in Observers, r \in Requests :
    /\ JustEnded(r) /\ Succeeded(r)
    /\ {"metrics", "logs"} \subseteq DOMAIN last.body.members
    /\ Len(sent[o]) = 1
    /\ sent[o][1].payload.metrics = "{\"cpu\":50}"
    /\ sent[o][1].payload.logs = "[\"start\"]"

(* ---------------- C13 ---------------- *)
\* C13: whatever malformed or schema-violating submissions and observer
\* disconnects have happened, the process is running, a further observer
\* can connect, every request being read can be ended, and a valid
\* submission that ends is answered 200 and handed to every observer that
\* is then registered and OPEN.
C13_StaysAvailable ==
  /\ alive
  /\ (\E o \in Observers : readyState[o] = CONNECTING)
       => ENABLED (\E o \in Observers : Connect(o))
  /\ \A r \in Requests :
       /\ reqState[r] = "reading" => ENABLED RequestEnd(r)
       /\ (JustEnded(r) /\ ValidSubmission(last.body))
            => Succeeded(r) /\ SentTo = OpenMembers

\* after a rejected submission and the disconnect of an observer, an
\* observer accepted later is handed a valid submission that is answered 200
C13_Witness ==
  \E r, q \in Requests, o, p \in Observers :
    /\ Len(responses[q]) = 1 /\ responses[q][1].code = 400
    /\ readyState[o] = CLOSED
    /\ p > o /\ readyState[p] = OPEN
    /\ JustEnded(r) /\ Succeeded(r)
    /\ sent[p] # <<>>

(* ---------------- C14 ---------------- *)
\* C14 as stated: an observer whose 'close' or 'error' event has been
\* handled is not a member of the registry, and no step hands it anything.
C14_GoneAfterCloseOrError ==
  \A o \in Observers :
    readyState[o] \in {CLOSING, CLOSED}
      => o \notin Range(clients) /\ sent[o] = <<>>

\* C14 amended: an observer whose 'close' event has been handled is not a
\* member of the registry; an observer whose 'error' event has been handled
\* and whose 'close' has not is still a member; neither is handed anything,
\* and broadcast_count counts the members, the second kind included.
C14_GoneAfterClose ==
  /\ \A o \in Observers :
       /\ readyState[o] = CLOSED => o \notin Range(clients) /\ sent[o] = <<>>
       /\ readyState[o] = CLOSING => o \in Range(clients) /\ sent[o] = <<>>
  /\ \A r \in Requests :
       (JustEnded(r) /\ Succeeded(r))
         => responses[r][1].body.broadcast_count =
              Cardinality({o \in Observers : readyState[o] \in {OPEN, CLOSING}})

\* a broadcast has just run with one observer closed and another one past
\* its 'error' event only, which it counted
C14_Witness ==
  \E r \in Requests, o, p \in Observers :
    /\ readyState[o] = CLOSED /\ readyState[p] = CLOSING
    /\ JustEnded(r) /\ Succeeded(r)
    /\ responses[r][1].body.broadcast_count = Cardinality(OpenMembers) + 1

C16_HandedInCompletionOrder ==
  [][\A o \in Observers : \A i \in 1..Len(sent'[o]) :
       sent'[o][i].type = "TELEMETRY"
         => \E r \in Requests :
              /\ EndStep(r)
              /\ Len(sent'[o]) = 1
              /\ IsEventOf(sent'[o][i], body[r])
              /\ Len(responses'[r]) = Len(responses[r]) + 1
              /\ \A q \in Requests \ {r} :
                   responses'[q] = responses[q] /\ reqState'[q] = reqState[q]]_vars

\* every observer, OPEN since an earlier event was broadcast to all of
\* them, has just been handed the event of another request
C16_Witness ==
  \E r, q \in Requests :
    /\ q # r
    /\ Succeeded(q) /\ responses[q][1].body.broadcast_count = MaxObservers
    /\ JustEnded(r) /\ Succeeded(r)
    /\ \A o \in Observers : readyState[o] = OPEN /\ Len(sent[o]) = 1

(* ---------------- C17 ---------------- *)
\* C17: the registry holds no observer twice, and a broadcast, whatever
\* connects and disconnects came before it, visits every registered OPEN
\* observer once, raises nothing and ends with the request answered.
C17_ConsistentIteration ==
  /\ \A i, j \in 1..Len(clients) : clients[i] = clients[j] => i = j
  /\ (last.kind = "end" /\ last.broadcast)
       => /\ ~last.raised
          /\ \A o \in Observers : Len(sent[o]) <= 1
          /\ SentTo = OpenMembers
          /\ Succeeded(last.request)

\* a broadcast has just run while another request is being read, after an
\* observer has disconnected and with another one connected
C17_Witness ==
  \E q \in Requests, o \in Observers :
    /\ last.kind = "end" /\ last.broadcast
    /\ reqState[q] = "reading"
    /\ readyState[o] = CLOSED
    /\ SentTo # {} /\ SentTo = OpenMembers

(* ---------------- C18 ---------------- *)
\* C18: an observer that is not OPEN is not OPEN after any step and is
\* handed nothing by it; a CLOSED observer stays CLOSED and out of the
\* registry, and no accepted observer returns to CONNECTING.
C18_NeverReopens ==
  [][\A o \in Observers :
       /\ readyState'[o] # OPEN => sent'[o] = <<>>
       /\ readyState[o] \in {CLOSING, CLOSED} => readyState'[o] \in {CLOSING, CLOSED}
       /\ readyState[o] = CLOSED
            => readyState'[o] = CLOSED /\ o \notin Range(clients')
       /\ readyState'[o] = CONNECTING => readyState[o] = CONNECTING]_vars

\* a broadcast has just passed over an observer that was greeted and has
\* since closed, and reached another one
C18_Witness ==
  \E o \in Observers :
    /\ last.kind = "end" /\ last.broadcast
    /\ readyState[o] = CLOSED /\ greetings[o] = 1 /\ sent[o] = <<>>
    /\ SentTo # {}

(* ---------------- C19 ---------------- *)
\* C19: the step that writes a 200 answer for a request is the step of its
\* 'end' handler, and in that step the event's message is handed to every
\* observer that is registered and OPEN.
C19_AckAfterFanOut ==
  [][\A r \in Requests :
       (responses'[r] # responses[r] /\ responses'[r][Len(responses'[r])].code = 200)
         => /\ EndStep(r)
            /\ last'.broadcast
            /\ \A o \in OpenMembers :
                 sent'[o] # <<>> /\ IsEventOf(sent'[o][1], body[r])]_vars

\* a request has just been answered 200 with every observer handed its event
C19_Witness ==
  \E r \in Requests :
    /\ JustEnded(r) /\ Succeeded(r)
    /\ responses[r][1].body.broadcast_count = MaxObservers
    /\ Cardinality(SentTo) = MaxObservers

(* ---------------- C20 ---------------- *)
\* C20: a request whose 'end' handler has run has exactly one response, the
\* 200 acknowledgement, the 400 Invalid schema or the 400 Invalid JSON; a
\* request whose handler has not run has none.
C20_ExactlyOneResponse ==
  \A r \in Requests :
    IF reqState[r] = "ended"
      THEN /\ Len(responses[r]) = 1
           /\ responses[r][1] \in
                {ErrorResponse(InvalidJSON), ErrorResponse(InvalidSchema)}
                  \cup {OkResponse(n) : n \in 0..MaxObservers}
      ELSE responses[r] = <<>>

\* one request has been answered Invalid schema and another Invalid JSON
C20_Witness ==
  \E r, q \in Requests :
    /\ Answered(r, ErrorResponse(InvalidSchema))
    /\ Answered(q, ErrorResponse(InvalidJSON))

====
